---- MODULE Spec2Model ----
(***************************************************************************)
(* Delta analysis of tar-diff (analysis.go): the inventory of an archive   *)
(* (analyzeTar), the source selection of analyzeForDelta, the spooling     *)
(* pass extractDeltaData and DeltaAnalysis.Close.                          *)
(*                                                                         *)
(* Strings are sequences of one-character strings, file contents are       *)
(* sequences of bytes, a *SourceInfo is the 1-based position of the record *)
(* in sourceInfos, a *TarFileInfo of a target the 1-based position of the  *)
(* file in new.files, and 0 is the nil pointer.                            *)
(***************************************************************************)
EXTENDS Integers, Sequences, FiniteSets, TLC

VARIABLES
    oldFile,        \* the old archive: the sequence of tar entries read from the stream
    new,            \* new.files, the inventory of the new archive
    sourceInfos,    \* []SourceInfo, one per old.files element, in inventory order
    targetInfos,    \* []TargetInfo built so far (its length is the loop index i)
    pc,             \* position inside analyzeForDelta / state of its result
    pos,            \* extractDeltaData: number of headers rdr.Next() has returned
    offset,         \* extractDeltaData: the local running offset
    sourceData,     \* bytes of the scratch file
    tmpExists,      \* the scratch file exists in /var/tmp
    copied          \* archive positions whose content io.Copy wrote to the scratch file

vars == <<oldFile, new, sourceInfos, targetInfos, pc, pos, offset, sourceData, tmpExists, copied>>

----------------------------------------------------------------------------
(* Bounds of the model *)

MaxOld == 3
MaxNew == 2

similarityPercentThreshold == 30

NIL == 0

----------------------------------------------------------------------------
(* Strings *)

RECURSIVE HasPrefix(_, _)
HasPrefix(s, prefix) ==
    IF Len(prefix) = 0 THEN TRUE
    ELSE IF Len(s) = 0 THEN FALSE
    ELSE Head(s) = Head(prefix) /\ HasPrefix(Tail(s), Tail(prefix))

\* strings.SplitAfterN(s, ".", 2)[0]: s up to and including its first ".",
\* the whole of s when it holds none.
RECURSIVE SplitAfterFirstDot(_)
SplitAfterFirstDot(s) ==
    IF Len(s) = 0 THEN << >>
    ELSE IF Head(s) = "." THEN << "." >>
    ELSE << Head(s) >> \o SplitAfterFirstDot(Tail(s))

RECURSIVE StripTrailingSlashes(_)
StripTrailingSlashes(p) ==
    IF Len(p) > 0 /\ p[Len(p)] = "/"
    THEN StripTrailingSlashes(SubSeq(p, 1, Len(p) - 1))
    ELSE p

RECURSIVE AfterLastSlash(_)
AfterLastSlash(p) ==
    IF \E k \in 1..Len(p) : p[k] = "/"
    THEN AfterLastSlash(Tail(p))
    ELSE p

\* path.Base
PathBase(name) ==
    IF Len(name) = 0 THEN << "." >>
    ELSE LET q == AfterLastSlash(StripTrailingSlashes(name))
         IN  IF Len(q) = 0 THEN << "/" >> ELSE q

----------------------------------------------------------------------------
(* Archive entries *)

\* hex(sha1(content)): a digest taken as collision-free, one value per content.
Sha1Hex(data) == << "sha1", data >>

isSparseFile(hdr) ==
    \/ hdr.Typeflag = "GNUSparse"
    \/ hdr.Typeflag = "Reg" /\ hdr.PAXSparse

useTarHeader(hdr) ==
    /\ hdr.Typeflag = "Reg"
    /\ hdr.Size # 0
    /\ ~isSparseFile(hdr)

\* The TarFileInfo analyzeTar builds for the entry at 0-based position index.
FileInfoOf(hdr, index) ==
    [ index         |-> index,
      basename      |-> PathBase(hdr.Name),
      path          |-> hdr.Name,
      size          |-> hdr.Size,
      sha1          |-> Sha1Hex(hdr.data),
      isExecutable  |-> /\ Len(hdr.data) > 4
                        /\ hdr.data[1] = 127 /\ hdr.data[2] = 69
                        /\ hdr.data[3] = 76 /\ hdr.data[4] = 70,
      worldReadable |-> (hdr.Mode \div 4) % 2 = 1 ]

\* sort.Slice with less = files[i].size < files[j].size: for inventories of
\* fewer than 7 files the library's insertion sort, which keeps the archive
\* order of files of equal size.
RECURSIVE InsertBySize(_, _)
InsertBySize(sorted, f) ==
    IF Len(sorted) = 0 THEN << f >>
    ELSE IF f.size < sorted[Len(sorted)].size
         THEN Append(InsertBySize(SubSeq(sorted, 1, Len(sorted) - 1), f), sorted[Len(sorted)])
         ELSE Append(sorted, f)

RECURSIVE SortBySize(_)
SortBySize(files) ==
    IF Len(files) = 0 THEN << >>
    ELSE InsertBySize(SortBySize(SubSeq(files, 1, Len(files) - 1)), files[Len(files)])

RECURSIVE CollectFiles(_, _)
CollectFiles(archive, k) ==
    IF k > Len(archive) THEN << >>
    ELSE (IF useTarHeader(archive[k]) THEN << FileInfoOf(archive[k], k - 1) >> ELSE << >>)
         \o CollectFiles(archive, k + 1)

\* analyzeTar(archive).files
analyzeTar(archive) == SortBySize(CollectFiles(archive, 1))

----------------------------------------------------------------------------
(* Source selection *)

\* isDeltaCandidate without the world-readable test.
isDeltaCandidate_IgnoresMode(file) ==
    ~(\/ HasPrefix(file.basename, << ".", "x", "z" >>)
      \/ HasPrefix(file.basename, << ".", "b", "z", "2" >>))

isDeltaCandidate(file) ==
    IF ~file.worldReadable THEN FALSE
    ELSE IF \/ HasPrefix(file.basename, << ".", "x", "z" >>)
            \/ HasPrefix(file.basename, << ".", "b", "z", "2" >>)
         THEN FALSE
         ELSE TRUE

nameIsSimilar(a, b, fuzzy) ==
    IF fuzzy = 0
    THEN a.basename = b.basename
    ELSE SplitAfterFirstDot(a.basename) = SplitAfterFirstDot(b.basename)

\* The maps built from sourceInfos in inventory order: a later record with
\* the same key replaces an earlier one.
LastIndex(S) == IF S = {} THEN NIL ELSE CHOOSE k \in S : \A j \in S : j <= k

sourceBySha1(sha1) ==
    LastIndex({ k \in 1..Len(sourceInfos) : sourceInfos[k].file.sha1 = sha1 })

sourceByPath(path) ==
    LastIndex({ k \in 1..Len(sourceInfos) : sourceInfos[k].file.path = path })

minSizeOf(file) == file.size - (file.size * similarityPercentThreshold) \div 100
maxSizeOf(file) == file.size + (file.size * similarityPercentThreshold) \div 100

\* "First look for exact content match"
ExactSource(file) ==
    LET sha1Source == sourceBySha1(file.sha1)
    IN  IF /\ sha1Source # NIL
           /\ file.size = sourceInfos[sha1Source].file.size
           /\ sourceInfos[sha1Source].file.worldReadable
        THEN sha1Source
        ELSE NIL

\* "First check by exact pathname match"
PathSource(file) ==
    LET s == sourceByPath(file.path)
    IN  IF /\ s # NIL
           /\ isDeltaCandidate(sourceInfos[s].file)
           /\ sourceInfos[s].file.size >= minSizeOf(file)
           /\ sourceInfos[s].file.size < maxSizeOf(file)
        THEN s
        ELSE NIL

\* The loop body without the test against maxSize.
ScanStep_NoUpperBound(file, s, fuzzy) ==
    IF ~isDeltaCandidate(s) THEN "continue"
    ELSE IF s.size < minSizeOf(file) THEN "lower"
    ELSE IF ~nameIsSimilar(file, s, fuzzy) THEN "continue"
    ELSE "select"

\* The loop body advancing lower past a candidate whose name does not match.
ScanStep_LowerOnMismatch(file, s, fuzzy) ==
    IF ~isDeltaCandidate(s) THEN "continue"
    ELSE IF s.size < minSizeOf(file) THEN "lower"
    ELSE IF s.size > maxSizeOf(file) THEN "break"
    ELSE IF ~nameIsSimilar(file, s, fuzzy) THEN "lower"
    ELSE "select"

\* One iteration of the inner loop on candidate s: what the body does.
ScanStep(file, s, fuzzy) ==
    IF ~isDeltaCandidate(s) THEN "continue"
    ELSE IF s.size < minSizeOf(file) THEN "lower"
    ELSE IF s.size > maxSizeOf(file) THEN "break"
    ELSE IF ~nameIsSimilar(file, s, fuzzy) THEN "continue"
    ELSE "select"

\* for j := lower; j < upper; j++ { ... } from index j (0-based), with the
\* current value of lower: the source found (or NIL) and the final lower.
RECURSIVE ScanPass(_, _, _, _)
ScanPass(file, fuzzy, j, lower) ==
    IF j >= Len(sourceInfos) THEN [ source |-> NIL, lower |-> lower ]
    ELSE LET step == ScanStep(file, sourceInfos[j + 1].file, fuzzy)
         IN  CASE step = "continue" -> ScanPass(file, fuzzy, j + 1, lower)
               [] step = "lower"    -> ScanPass(file, fuzzy, j + 1, lower + 1)
               [] step = "break"    -> [ source |-> NIL, lower |-> lower ]
               [] step = "select"   -> [ source |-> j + 1, lower |-> lower ]

\* for fuzzy := 0; fuzzy < 2 && source == nil; fuzzy++ { ... }
FuzzyScan(file) ==
    LET pass0 == ScanPass(file, 0, 0, 0)
    IN  IF pass0.source # NIL THEN pass0
        ELSE ScanPass(file, 1, pass0.lower, pass0.lower)

\* The source and the usedForDelta local at the end of the selection.
SelectSource(file) ==
    IF ExactSource(file) # NIL
    THEN [ source |-> ExactSource(file), usedForDelta |-> FALSE ]
    ELSE IF ~isDeltaCandidate(file)
    THEN [ source |-> NIL, usedForDelta |-> FALSE ]
    ELSE IF PathSource(file) # NIL
    THEN [ source |-> PathSource(file), usedForDelta |-> TRUE ]
    ELSE LET found == FuzzyScan(file).source
         IN  [ source |-> found, usedForDelta |-> found # NIL ]

----------------------------------------------------------------------------
(* Inputs *)

Entry(name, size, byte, mode) ==
    [ Name |-> name, Typeflag |-> "Reg", PAXSparse |-> FALSE, Size |-> size,
      Mode |-> mode, data |-> [ i \in 1..size |-> byte ] ]

\* Permission bits: 0644, and 0600 without the world-read bit.
ModeRW == 256 + 128 + 32 + 4
ModePrivate == 256 + 128

OldPool ==
    { Entry(<< "a", "/", "l", ".", "s" >>, 5, 1, ModeRW),
      Entry(<< "a", "/", "l", ".", "s" >>, 3, 2, ModeRW),
      Entry(<< "b", "/", "l", ".", "s" >>, 4, 3, ModeRW),
      Entry(<< "b", "/", "l", ".", "t" >>, 3, 2, ModePrivate),
      [ Name |-> << "a", "/" >>, Typeflag |-> "Dir", PAXSparse |-> FALSE, Size |-> 0,
        Mode |-> ModeRW, data |-> << >> ] }

NewPool ==
    { Entry(<< "a", "/", "l", ".", "s" >>, 4, 6, ModeRW),
      Entry(<< "b", "/", "l" >>, 3, 2, ModeRW),
      Entry(<< "a", "/", "l", ".", "s" >>, 3, 7, ModeRW),
      Entry(<< "b", "/", "l", ".", "t" >>, 5, 8, ModeRW),
      Entry(<< "a", "/", ".", "b", "z", "2" >>, 3, 2, ModeRW),
      Entry(<< "b", "/", "l", ".", "s" >>, 3, 7, ModePrivate) }

Archives(pool, max) == UNION { [ 1..n -> pool ] : n \in 0..max }

\* The old archive with the inventory analyzeTar made of it, and the
\* inventories of the new archives.
OldInputs == { [ archive |-> a, files |-> analyzeTar(a) ] : a \in Archives(OldPool, MaxOld) }
NewInputs == { analyzeTar(a) : a \in Archives(NewPool, MaxNew) }

----------------------------------------------------------------------------
(* analyzeForDelta *)

Init ==
    /\ \E old \in OldInputs :
          /\ oldFile = old.archive
          /\ sourceInfos = [ k \in 1..Len(old.files) |->
                               [ file |-> old.files[k], usedForDelta |-> FALSE, offset |-> 0 ] ]
    /\ new \in NewInputs
    /\ targetInfos = << >>
    /\ pc = "select"
    /\ pos = 0
    /\ offset = 0
    /\ sourceData = << >>
    /\ tmpExists = FALSE
    /\ copied = << >>

\* One iteration of "for i := range new.files".
AnalyzeTarget ==
    /\ pc = "select"
    /\ Len(targetInfos) < Len(new)
    /\ LET file == new[Len(targetInfos) + 1]
           sel  == SelectSource(file)
       IN  /\ sourceInfos' =
                 IF sel.source # NIL
                 THEN [ sourceInfos EXCEPT ![sel.source].usedForDelta = sel.usedForDelta ]
                 ELSE sourceInfos
           /\ targetInfos' = Append(targetInfos,
                 [ file |-> Len(targetInfos) + 1, source |-> sel.source,
                   rollsumMatches |-> IF sel.source # NIL /\ sel.usedForDelta
                                      THEN "computed" ELSE "nil" ])
    /\ UNCHANGED << oldFile, new, pc, pos, offset, sourceData, tmpExists, copied >>

\* return nil, err: the call is over, its arguments and locals are gone and
\* no DeltaAnalysis exists; what is on disk stays.
Failed ==
    /\ pc' = "error"
    /\ oldFile' = << >>
    /\ new' = << >>
    /\ targetInfos' = << >>
    /\ sourceInfos' = << >>
    /\ pos' = 0
    /\ offset' = 0

\* targetInfoByIndex[index]: the map filled in inventory order, a later
\* target with the same index replacing an earlier one.
targetInfoByIndex(index) ==
    LastIndex({ i \in 1..Len(targetInfos) : new[targetInfos[i].file].index = index })

\* The target index is built and ioutil.TempFile creates the scratch file.
TempFileOk ==
    /\ pc = "select"
    /\ Len(targetInfos) = Len(new)
    /\ pc' = "extract"
    /\ tmpExists' = TRUE
    /\ UNCHANGED << oldFile, new, sourceInfos, targetInfos, pos, offset, sourceData, copied >>

\* ioutil.TempFile fails: nothing was created.
TempFileFail ==
    /\ pc = "select"
    /\ Len(targetInfos) = Len(new)
    /\ Failed
    /\ UNCHANGED << sourceData, tmpExists, copied >>

\* gzip.NewReader fails
ExtractOpenFail ==
    /\ pc = "extract"
    /\ pos = 0
    /\ Failed
    /\ UNCHANGED << sourceData, tmpExists, copied >>

\* rdr.Next() fails with an error other than io.EOF
ExtractNextFail ==
    /\ pc = "extract"
    /\ pos <= Len(oldFile)
    /\ Failed
    /\ UNCHANGED << sourceData, tmpExists, copied >>

\* rdr.Next() returns a header: one iteration of the loop, io.Copy succeeding.
ExtractEntry ==
    /\ pc = "extract"
    /\ pos < Len(oldFile)
    /\ LET hdr  == oldFile[pos + 1]
           info == sourceByPath(hdr.Name)
       IN  IF useTarHeader(hdr) /\ sourceInfos[info].usedForDelta
           THEN /\ sourceInfos' = [ sourceInfos EXCEPT ![info].offset = offset ]
                /\ offset' = offset + hdr.Size
                /\ sourceData' = sourceData \o hdr.data
                /\ copied' = Append(copied, pos)
           ELSE UNCHANGED << sourceInfos, offset, sourceData, copied >>
    /\ pos' = pos + 1
    /\ UNCHANGED << oldFile, new, targetInfos, pc, tmpExists >>

\* io.Copy fails after writing n bytes of the entry
ExtractCopyFail ==
    /\ pc = "extract"
    /\ pos < Len(oldFile)
    /\ LET hdr  == oldFile[pos + 1]
           info == sourceByPath(hdr.Name)
       IN  /\ useTarHeader(hdr)
           /\ sourceInfos[info].usedForDelta
           /\ \E n \in 0..(hdr.Size - 1) :
                 sourceData' = sourceData \o SubSeq(hdr.data, 1, n)
    /\ Failed
    /\ UNCHANGED << tmpExists, copied >>

\* rdr.Next() returns io.EOF: extractDeltaData returns nil and analyzeForDelta
\* returns the DeltaAnalysis.
ExtractDone ==
    /\ pc = "extract"
    /\ pos = Len(oldFile)
    /\ pc' = "done"
    /\ UNCHANGED << oldFile, new, sourceInfos, targetInfos, pos, offset, sourceData, tmpExists, copied >>

\* DeltaAnalysis.Close
Close ==
    /\ pc = "done"
    /\ pc' = "closed"
    /\ tmpExists' = FALSE
    /\ UNCHANGED << oldFile, new, sourceInfos, targetInfos, pos, offset, sourceData, copied >>

Next ==
    \/ AnalyzeTarget
    \/ TempFileOk
    \/ TempFileFail
    \/ ExtractOpenFail
    \/ ExtractNextFail
    \/ ExtractEntry
    \/ ExtractCopyFail
    \/ ExtractDone
    \/ Close

Spec == Init /\ [][Next]_vars

----------------------------------------------------------------------------
(* Vocabulary of the properties *)

Targets == 1..Len(targetInfos)
TargetFile(i) == new[targetInfos[i].file]
Sources == 1..Len(sourceInfos)

Partial(i) == targetInfos[i].rollsumMatches # "nil"
ExactIdentity(i) == targetInfos[i].source # NIL /\ targetInfos[i].rollsumMatches = "nil"

WindowLow(T) == T.size - (T.size * 30) \div 100
WindowHigh(T) == T.size + (T.size * 30) \div 100
InWindow(T, S) == WindowLow(T) <= S.size /\ S.size <= WindowHigh(T)

Reserved(basename) ==
    \/ HasPrefix(basename, << ".", "x", "z" >>)
    \/ HasPrefix(basename, << ".", "b", "z", "2" >>)
Eligible(f) == f.worldReadable /\ ~Reserved(f.basename)

\* The basename up to and excluding its first ".".
RECURSIVE BeforeFirstDot(_)
BeforeFirstDot(b) ==
    IF Len(b) = 0 \/ Head(b) = "." THEN << >>
    ELSE << Head(b) >> \o BeforeFirstDot(Tail(b))

\* Some old file has T's content and size and is world-readable.
HasIdenticalReadable(T) ==
    \E k \in Sources :
        /\ sourceInfos[k].file.sha1 = T.sha1
        /\ sourceInfos[k].file.size = T.size
        /\ sourceInfos[k].file.worldReadable

AllTargetsDone == pc \in { "extract", "done", "closed" }

----------------------------------------------------------------------------
(* C1: once every target is processed, each target with a block            *)
(* correspondence references a source whose usedForDelta flag is set.      *)
C1_MatchedSourceIsConsumed ==
    AllTargetsDone =>
        \A i \in Targets :
            Partial(i) =>
                /\ targetInfos[i].source # NIL
                /\ sourceInfos[targetInfos[i].source].usedForDelta

(* C2: a target for which some old file has the same digest and size and   *)
(* is world-readable has an exact-identity match.                          *)
C2_IdenticalReadableGivesExactMatch ==
    \A i \in Targets :
        HasIdenticalReadable(TargetFile(i)) => ExactIdentity(i)

(* C3: in every terminal state of the analysis, failed or closed, no       *)
(* scratch file is left on disk.                                           *)
C3_NoScratchFileLeftBehind ==
    pc \in { "error", "closed" } => ~tmpExists

\* The old files at T's path that are delta candidates inside the window.
PathQualified(T) ==
    { k \in Sources :
        /\ sourceInfos[k].file.path = T.path
        /\ Eligible(sourceInfos[k].file)
        /\ InWindow(T, sourceInfos[k].file) }

(* C4: an eligible target without an identical readable old file, for      *)
(* which an eligible old file at the same path lies in the inclusive size  *)
(* window, gets that file as partial-reuse source, and the file is marked  *)
(* usedForDelta when the target has been processed.                        *)
C4_ExactPathMatchSelected ==
    \A i \in Targets :
        LET T == TargetFile(i)
        IN  ( /\ Eligible(T)
              /\ ~HasIdenticalReadable(T)
              /\ PathQualified(T) # {} )
            => /\ targetInfos[i].source \in PathQualified(T)
               /\ Partial(i)
               /\ (i = Len(targetInfos) /\ pc = "select"
                     => sourceInfos[targetInfos[i].source].usedForDelta)

(* C5: for every new file and every old file, nameIsSimilar at fuzziness 0 *)
(* is equality of the basenames, and at fuzziness 1 equality of the        *)
(* basenames cut before their first ".".                                   *)
C5_NameSimilarity ==
    pc = "select" =>
        \A i \in 1..Len(new) : \A k \in Sources :
            LET a == new[i]
                b == sourceInfos[k].file
            IN  /\ nameIsSimilar(a, b, 0) <=> (a.basename = b.basename)
                /\ nameIsSimilar(a, b, 1) <=>
                       (BeforeFirstDot(a.basename) = BeforeFirstDot(b.basename))

\* How often the content of old.files[k] was written to the scratch file.
TimesCopied(k) ==
    Cardinality({ n \in 1..Len(copied) : copied[n] = sourceInfos[k].file.index })

(* C6: after a successful spooling pass, an old file that two or more      *)
(* targets selected for partial reuse was written to the scratch file      *)
(* exactly once.                                                           *)
C6_SharedSourceCopiedOnce ==
    pc = "done" =>
        \A k \in Sources :
            Cardinality({ i \in Targets : Partial(i) /\ targetInfos[i].source = k }) >= 2
                => TimesCopied(k) = 1

(* C7: in the analysis returned, the source of every partial-reuse match   *)
(* has a size inside the inclusive 30% window of the target's size.        *)
C7_PartialSourceInWindow ==
    pc = "done" =>
        \A i \in Targets :
            Partial(i) =>
                /\ targetInfos[i].source # NIL
                /\ InWindow(TargetFile(i), sourceInfos[targetInfos[i].source].file)

\* A partial match found in pass 0 whose source sits on the upper edge of
\* the window, and a partial match of another target found in pass 1.
C7_Witness ==
    /\ pc = "done"
    /\ \E i \in Targets :
          /\ Partial(i)
          /\ sourceInfos[targetInfos[i].source].file.size = WindowHigh(TargetFile(i))
          /\ WindowHigh(TargetFile(i)) > TargetFile(i).size
    /\ \E i \in Targets :
          /\ Partial(i)
          /\ TargetFile(i).basename
                # sourceInfos[targetInfos[i].source].file.basename

FirstOrNil(S) == IF S = {} THEN NIL ELSE CHOOSE k \in S : \A j \in S : k <= j
Qualifying(T, fuzzy) ==
    { k \in Sources :
        /\ isDeltaCandidate(sourceInfos[k].file)
        /\ InWindow(T, sourceInfos[k].file)
        /\ nameIsSimilar(T, sourceInfos[k].file, fuzzy) }
ReferenceScan(T) ==
    IF Qualifying(T, 0) # {} THEN FirstOrNil(Qualifying(T, 0))
    ELSE FirstOrNil(Qualifying(T, 1))

\* The target reached the two-pass scan.
Scanned(T) == isDeltaCandidate(T) /\ ExactSource(T) = NIL /\ PathSource(T) = NIL

(* C9: in the analysis returned, for a target to which neither the         *)
(* identity match nor the exact-path match applies, the source the         *)
(* two-pass scan selected is the one the search without pruning selects.   *)
C9_ScanEqualsReference ==
    pc = "done" =>
        \A i \in Targets :
            Scanned(TargetFile(i)) =>
                targetInfos[i].source = ReferenceScan(TargetFile(i))

\* A source found in pass 1 after pass 0 advanced lower, with an old file
\* that is no delta candidate before it in the inventory, so that pass 1
\* starts before the position pass 0 had reached.
C9_Witness ==
    /\ pc = "done"
    /\ \E i \in Targets :
          LET T == TargetFile(i)
          IN  /\ Scanned(T)
              /\ targetInfos[i].source # NIL
              /\ Qualifying(T, 0) = {}
              /\ ScanPass(T, 0, 0, 0).lower >= 1
              /\ ScanPass(T, 0, 0, 0).lower + 1 < targetInfos[i].source
              /\ \E k \in 1..(targetInfos[i].source - 1) :
                    ~isDeltaCandidate(sourceInfos[k].file)

\* The SourceInfo made for the archive entry at 1-based position p, NIL for
\* an entry analyzeTar skipped.
OwnInfo(p) ==
    FirstOrNil({ k \in Sources : sourceInfos[k].file.index = p - 1 })

RECURSIVE ConsumedContents(_)
ConsumedContents(p) ==
    IF p > Len(oldFile) THEN << >>
    ELSE (IF OwnInfo(p) # NIL /\ sourceInfos[OwnInfo(p)].usedForDelta
          THEN oldFile[p].data ELSE << >>)
         \o ConsumedContents(p + 1)

(* C10: after a successful spooling pass the scratch file holds exactly    *)
(* the contents of the consumed old files in archive order, and each       *)
(* consumed source's offset addresses its own content.                     *)
C10_ScratchLayout ==
    pc = "done" =>
        /\ sourceData = ConsumedContents(1)
        /\ \A k \in Sources :
              sourceInfos[k].usedForDelta =>
                  /\ sourceInfos[k].offset + sourceInfos[k].file.size <= Len(sourceData)
                  /\ SubSeq(sourceData, sourceInfos[k].offset + 1,
                            sourceInfos[k].offset + sourceInfos[k].file.size)
                        = oldFile[sourceInfos[k].file.index + 1].data

====
